---- MODULE Spec2Model ----
(***************************************************************************)
(* KeeplyBot: the browser-side chat controller (both variants: the plain   *)
(* one of src/src/ts/KeeplyBot/KeeplyBot.ts and the attachment-capable one *)
(* of src/unnamed/part_000), its transport (api.ts) and the capability     *)
(* reconciler, as a state machine.  One action per handler or per          *)
(* resolution of an awaited request.                                       *)
(***************************************************************************)
EXTENDS Integers, Sequences, FiniteSets, TLC

VARIABLES
    variant,        \* "simple" (KeeplyBot.ts) or "rich" (part_000)
    present,        \* the elements the constructor's querySelector calls found
    elem,           \* registry key -> attribute/class state of that element
    capsPc,         \* updateUiCapabilities: "idle", "fetching", "done", "rejected"
    capsRuns,       \* number of updateUiCapabilities calls issued
    lastCaps,       \* the descriptor the last completed fetch delivered, if any
    initDone,       \* init() has run
    text,           \* textarea.value, a sequence of characters
    defaultValue,   \* textarea.defaultValue, restored by form.reset()
    sendDisabled,   \* _chatSendButton.disabled
    selectedFiles,  \* _selectedFiles
    chooser,        \* the file input created by the last attach click, if any
    preview,        \* the attachments preview list: its items and hidden class
    inflight,       \* the POSTs awaited by submit handlers, in issue order
    loadPc,         \* _loadMessages: "idle", "fetching", "done"
    content,        \* children of .chat__content
    emptyHidden,    \* _emptyBlock.style.display = 'none'
    skeletonHidden, \* .chat__skeleton carries the hidden class
    overtaken,      \* history, where the issue order of the requests is
                    \* followed: the pending requests (LoadSlot or a POST's
                    \* slot) issued before one whose answer has been rendered
    event,          \* history: the step just taken and what its handler did
    answers,        \* what the server answers to the two requests of init(),
                    \* where these are fixed in advance
    listeners,      \* TooltipManager: the document event types it listens to
    created,        \* TooltipManager: label elements created so far
    currentTarget,  \* TooltipManager._currentTarget
    tooltipElement, \* TooltipManager._tooltipElement: the floating label, if any
    appRoot,        \* the document has an element with id "App"
    viewport,       \* window.innerWidth / innerHeight
    tipEvent        \* history: the tooltip handler that ran last and what it saw

capVars  == <<elem, capsPc, capsRuns, lastCaps>>
tipVars  == <<listeners, created, currentTarget, tooltipElement, appRoot, viewport, tipEvent>>
\* What no handler of the controller changes: the DOM the constructor found
\* and the tooltip manager's state.
domVars  == <<variant, present, defaultValue, answers, tipVars>>
\* What no handler of the tooltip manager changes.
botVars  == <<elem, capsPc, capsRuns, lastCaps, variant, present, defaultValue,
              answers, initDone, text, sendDisabled, selectedFiles, chooser, preview,
              inflight, loadPc, content, emptyHidden, skeletonHidden, overtaken,
              event>>
formVars == <<text, sendDisabled, selectedFiles, chooser, preview>>
chatVars == <<loadPc, content, emptyHidden, skeletonHidden, overtaken>>
vars == <<capVars, domVars, initDone, formVars, inflight, chatVars, event>>

(***************************************************************************)
(* Bounds of the model.                                                    *)
(***************************************************************************)
MaxCapsCalls == 2   \* calls of updateUiCapabilities per run of the model
MaxInflight  == 2   \* POSTs awaiting their response at the same time

(***************************************************************************)
(* Optional values: an absent attribute / null is <<>>, a present one <<v>>*)
(***************************************************************************)
Absent == <<>>
Some(v) == <<v>>
IsSome(o) == Len(o) > 0

Has(obj, field) == field \in DOMAIN obj
EmptyObject == [k \in {} |-> TRUE]

(***************************************************************************)
(* The UI registry (_botUi): three categories of named elements.           *)
(***************************************************************************)
\* The two controllers: the plain one and the attachment-capable one.
Variants == {"simple", "rich"}

Categories == <<"ui", "messaging", "search">>

UiKeys(category) ==
    CASE category = "ui" ->
             <<"buttonHelp", "buttonFavorites", "buttonAttachments", "buttonSettings">>
      [] category = "messaging" -> <<"sendText", "sendAttachments">>
      [] category = "search" -> <<"searchMessages">>

Range(s) == {s[i] : i \in DOMAIN s}

RegistryKeys == UNION {Range(UiKeys(Categories[i])) : i \in DOMAIN Categories}

\* Elements located by the other querySelector calls of the constructor.
\* .chat__textarea is registry slot sendText, .chat__btn-attach is slot
\* sendAttachments.
OtherElements ==
    {"form", "sendButton", "preview", "chatContent", "emptyBlock", "skeleton"}

AllElements == RegistryKeys \cup OtherElements

(***************************************************************************)
(* String(number): the decimal digits of an integer, as characters.        *)
(***************************************************************************)
Digit(d) ==
    CASE d = 0 -> "0" [] d = 1 -> "1" [] d = 2 -> "2" [] d = 3 -> "3"
      [] d = 4 -> "4" [] d = 5 -> "5" [] d = 6 -> "6" [] d = 7 -> "7"
      [] d = 8 -> "8" [] d = 9 -> "9"

RECURSIVE NatToString(_)
NatToString(n) ==
    IF n < 10 THEN <<Digit(n)>> ELSE NatToString(n \div 10) \o <<Digit(n % 10)>>

NumberToString(n) == IF n < 0 THEN <<"-">> \o NatToString(-n) ELSE NatToString(n)

(***************************************************************************)
(* JSON.stringify of an array of strings (strings are character sequences).*)
(***************************************************************************)
RECURSIVE JsonQuoteChars(_)
JsonQuoteChars(s) ==
    IF s = <<>> THEN <<>>
    ELSE (IF Head(s) \in {"\"", "\\"} THEN <<"\\", Head(s)>> ELSE <<Head(s)>>)
         \o JsonQuoteChars(Tail(s))

JsonQuote(s) == <<"\"">> \o JsonQuoteChars(s) \o <<"\"">>

RECURSIVE JsonJoin(_)
JsonJoin(arr) ==
    IF arr = <<>> THEN <<>>
    ELSE IF Len(arr) = 1 THEN JsonQuote(arr[1])
    ELSE JsonQuote(Head(arr)) \o <<",">> \o JsonJoin(Tail(arr))

JsonStringifyArray(arr) == <<"[">> \o JsonJoin(arr) \o <<"]">>

\* JSON.parse of the text of an array of strings: [ok |-> FALSE] stands for
\* the SyntaxError.  Inside a string a backslash escapes the next character.
ParseFailed == [ok |-> FALSE, value |-> <<>>, rest |-> <<>>]

RECURSIVE JsonParseChars(_, _)
JsonParseChars(s, acc) ==
    IF s = <<>> THEN ParseFailed
    ELSE IF Head(s) = "\"" THEN [ok |-> TRUE, value |-> acc, rest |-> Tail(s)]
    ELSE IF Head(s) = "\\"
         THEN IF Len(s) >= 2 /\ s[2] \in {"\"", "\\", "/"}
              THEN JsonParseChars(Tail(Tail(s)), Append(acc, s[2]))
              ELSE ParseFailed
    ELSE JsonParseChars(Tail(s), Append(acc, Head(s)))

RECURSIVE JsonParseElements(_, _)
JsonParseElements(s, acc) ==
    IF s = <<>> \/ Head(s) # "\"" THEN ParseFailed
    ELSE LET str == JsonParseChars(Tail(s), <<>>)
         IN  IF ~str.ok \/ str.rest = <<>> THEN ParseFailed
             ELSE IF str.rest = <<"]">>
                  THEN [ok |-> TRUE, value |-> Append(acc, str.value), rest |-> <<>>]
             ELSE IF Head(str.rest) = ","
                  THEN JsonParseElements(Tail(str.rest), Append(acc, str.value))
             ELSE ParseFailed

JsonParseArray(str) ==
    IF str = <<>> \/ Head(str) # "[" THEN ParseFailed
    ELSE IF Tail(str) = <<"]">> THEN [ok |-> TRUE, value |-> <<>>, rest |-> <<>>]
    ELSE JsonParseElements(Tail(str), <<>>)

\* Array.prototype.join(',') of an array of strings.
RECURSIVE JoinComma(_)
JoinComma(arr) ==
    IF arr = <<>> THEN <<>>
    ELSE IF Len(arr) = 1 THEN arr[1]
    ELSE Head(arr) \o <<",">> \o JoinComma(Tail(arr))

(***************************************************************************)
(* _updateElementState: the element's attributes after applying config.    *)
(***************************************************************************)
BlankAttrs ==
    [disabled |-> FALSE, hasTooltipClass |-> FALSE, dataTooltip |-> Absent,
     dataLimit |-> Absent, dataTypes |-> Absent]

\* A plausible slip: classList.toggle instead of classList.add.
UpdateElementStateToggle(attrs, config) ==
    LET isEnabled == Has(config, "availableState") /\ config.availableState = "true"
        tip == Has(config, "hasTooltip") /\ config.hasTooltip
    IN  [disabled |-> ~isEnabled,
         hasTooltipClass |-> IF tip THEN ~attrs.hasTooltipClass ELSE FALSE,
         dataTooltip |->
             IF tip
             THEN Some(IF Has(config, "tooltip") THEN config.tooltip ELSE "")
             ELSE Absent,
         dataLimit |->
             IF Has(config, "limit") THEN Some(NumberToString(config.limit)) ELSE Absent,
         dataTypes |->
             IF Has(config, "types") /\ Len(config.types) > 0
             THEN Some(JsonStringifyArray(config.types))
             ELSE Absent]

\* A plausible slip: fail-open (anything but "false" enables).
UpdateElementStateFailOpen(attrs, config) ==
    LET isDisabled == Has(config, "availableState") /\ config.availableState = "false"
        tip == Has(config, "hasTooltip") /\ config.hasTooltip
    IN  [attrs EXCEPT
         !.disabled = isDisabled,
         !.hasTooltipClass = tip,
         !.dataTooltip =
             IF tip
             THEN Some(IF Has(config, "tooltip") THEN config.tooltip ELSE "")
             ELSE Absent,
         !.dataLimit =
             IF Has(config, "limit") THEN Some(NumberToString(config.limit)) ELSE Absent,
         !.dataTypes =
             IF Has(config, "types") /\ Len(config.types) > 0
             THEN Some(JsonStringifyArray(config.types))
             ELSE Absent]

\* A plausible slip: the types are stored joined by commas, not as JSON.
UpdateElementStateCommaTypes(attrs, config) ==
    LET isEnabled == Has(config, "availableState") /\ config.availableState = "true"
        tip == Has(config, "hasTooltip") /\ config.hasTooltip
    IN  [attrs EXCEPT
            !.disabled = ~isEnabled,
            !.hasTooltipClass = tip,
            !.dataTooltip = IF tip THEN Some(IF Has(config, "tooltip")
                                             THEN config.tooltip ELSE "")
                            ELSE Absent,
            !.dataLimit = IF Has(config, "limit")
                          THEN Some(NumberToString(config.limit)) ELSE Absent,
            !.dataTypes = IF Has(config, "types") /\ Len(config.types) > 0
                          THEN Some(JoinComma(config.types)) ELSE Absent]

\* A plausible slip: the limit attribute is written only for a non-empty
\* types list.
UpdateElementStateNoLimit(attrs, config) ==
    LET isEnabled == Has(config, "availableState") /\ config.availableState = "true"
        tip == Has(config, "hasTooltip") /\ config.hasTooltip
        typed == Has(config, "types") /\ Len(config.types) > 0
    IN  [attrs EXCEPT
         !.disabled = ~isEnabled,
         !.hasTooltipClass = tip,
         !.dataTooltip =
             IF tip
             THEN Some(IF Has(config, "tooltip") THEN config.tooltip ELSE "")
             ELSE Absent,
         !.dataLimit =
             IF Has(config, "limit") /\ typed
             THEN Some(NumberToString(config.limit)) ELSE Absent,
         !.dataTypes =
             IF typed THEN Some(JsonStringifyArray(config.types)) ELSE Absent]

UpdateElementState(attrs, config) ==
    LET isEnabled == Has(config, "availableState") /\ config.availableState = "true"
        tip == Has(config, "hasTooltip") /\ config.hasTooltip
    IN  [attrs EXCEPT
         \* disabled: removed only for exactly "true"
         !.disabled = ~isEnabled,
         \* classList.add / classList.remove
         !.hasTooltipClass = tip,
         \* setAttribute('data-tooltip', config.tooltip || '') / removeAttribute
         !.dataTooltip =
             IF tip
             THEN Some(IF Has(config, "tooltip") THEN config.tooltip ELSE "")
             ELSE Absent,
         \* typeof config.limit !== 'undefined'
         !.dataLimit =
             IF Has(config, "limit") THEN Some(NumberToString(config.limit)) ELSE Absent,
         \* Array.isArray(config.types) && config.types.length > 0
         !.dataTypes =
             IF Has(config, "types") /\ Len(config.types) > 0
             THEN Some(JsonStringifyArray(config.types))
             ELSE Absent]

(***************************************************************************)
(* Capability descriptors.  A descriptor maps some categories to a value;  *)
(* a category value is an object (kind "object", keys -> settings) or any  *)
(* other JSON value (kind "scalar").  Settings hold a subset of the fields *)
(* availableState, limit, types, hasTooltip, tooltip.                      *)
(***************************************************************************)
NoKeys == [k \in {} |-> EmptyObject]
ObjectCategory(keys) == [kind |-> "object", keys |-> keys]
ScalarCategory == [kind |-> "scalar", keys |-> NoKeys]

\* capabilities[category] is an object: passes
\* `!capCategory || typeof capCategory !== 'object'`.
IsObjectCategory(caps, category) ==
    Has(caps, category) /\ caps[category].kind = "object"

\* capCategory[elementKey] is present (and, being an object, truthy).
HasConfig(caps, category, key) ==
    IsObjectCategory(caps, category) /\ Has(caps[category].keys, key)

RECURSIVE ReconcileKeys(_, _, _, _, _)
ReconcileKeys(el, pres, caps, category, keys) ==
    IF keys = <<>> THEN el
    ELSE LET key == Head(keys)
             next == IF key \in pres /\ HasConfig(caps, category, key)
                     THEN [el EXCEPT ![key] =
                              UpdateElementState(el[key], caps[category].keys[key])]
                     ELSE el
         IN  ReconcileKeys(next, pres, caps, category, Tail(keys))

RECURSIVE ReconcileCategories(_, _, _, _)
ReconcileCategories(el, pres, caps, cats) ==
    IF cats = <<>> THEN el
    ELSE LET category == Head(cats)
             next == IF IsObjectCategory(caps, category)
                     THEN ReconcileKeys(el, pres, caps, category, UiKeys(category))
                     ELSE el
         IN  ReconcileCategories(next, pres, caps, Tail(cats))

\* _setSendAttachmentsAttributes(capabilities.messaging.sendAttachments), the
\* last statement of the attachment-capable updateUiCapabilities.  Reading
\* .sendAttachments of an undefined messaging raises a TypeError; so does
\* _updateElementState reading .availableState of an undefined config.
SetSendAttachmentsAttributes(el, pres, caps) ==
    IF ~Has(caps, "messaging") THEN [elem |-> el, threw |-> TRUE]
    ELSE IF "sendAttachments" \notin pres THEN [elem |-> el, threw |-> FALSE]
    ELSE IF ~HasConfig(caps, "messaging", "sendAttachments")
         THEN [elem |-> el, threw |-> TRUE]
    ELSE [elem |-> [el EXCEPT !["sendAttachments"] =
                       UpdateElementState(el["sendAttachments"],
                                          caps["messaging"].keys["sendAttachments"])],
          threw |-> FALSE]

\* The body of updateUiCapabilities after the descriptor arrived.
Reconcile(el, pres, var, caps) ==
    LET looped == ReconcileCategories(el, pres, caps, Categories)
    IN  IF var = "rich" THEN SetSendAttachmentsAttributes(looped, pres, caps)
        ELSE [elem |-> looped, threw |-> FALSE]

(***************************************************************************)
(* Transport.  A response is a network error (net = FALSE) or an HTTP      *)
(* response with its ok flag and a body that parses as JSON or not.        *)
(***************************************************************************)
NetworkError(value) == [net |-> FALSE, ok |-> FALSE, parses |-> FALSE, value |-> value]
Http(ok, parses, value) == [net |-> TRUE, ok |-> ok, parses |-> parses, value |-> value]

\* fetchCapabilities: {} on a network error or a non-2xx status; otherwise
\* the promise of response.json(), returned without await, so a body that
\* does not parse rejects past the catch.
FetchCapabilities(resp) ==
    IF ~resp.net THEN [rejected |-> FALSE, value |-> EmptyObject]
    ELSE IF ~resp.ok THEN [rejected |-> FALSE, value |-> EmptyObject]
    ELSE IF ~resp.parses THEN [rejected |-> TRUE, value |-> EmptyObject]
    ELSE [rejected |-> FALSE, value |-> resp.value]

(***************************************************************************)
(* Inputs: settings, descriptors and responses of the capabilities         *)
(* endpoint.                                                               *)
(***************************************************************************)
Field(name, opt) == IF IsSome(opt) THEN [k \in {name} |-> opt[1]] ELSE EmptyObject

MkConfig(a, l, t, h, tt) ==
    Field("availableState", a) @@ Field("limit", l) @@ Field("types", t)
        @@ Field("hasTooltip", h) @@ Field("tooltip", tt)

TypeImage == <<"i", "/", "*">>
TypeOdd == <<"a", ",", "\"">>

AvailableStates == {Absent, Some("true"), Some("false"), Some("yes")}
Limits == {Absent, Some(0), Some(1), Some(12)}
TypeLists == {Absent, Some(<<>>), Some(<<TypeImage>>), Some(<<TypeImage, TypeOdd>>)}
TooltipFlags == {Absent, Some(TRUE), Some(FALSE)}
TooltipTexts == {Absent, Some(""), Some("Disabled")}

Configs ==
    {MkConfig(a, l, t, h, tt) :
        a \in AvailableStates, l \in Limits, t \in TypeLists,
        h \in TooltipFlags, tt \in TooltipTexts}

\* The settings of the scenario of the specification's section 8.
CfgScenario ==
    [availableState |-> "false", limit |-> 1, types |-> <<>>,
     hasTooltip |-> TRUE, tooltip |-> "Disabled"]
CfgEnabled ==
    [availableState |-> "true", limit |-> 2, types |-> <<TypeImage, TypeOdd>>,
     hasTooltip |-> FALSE, tooltip |-> ""]
CfgOdd == [availableState |-> "yes", hasTooltip |-> TRUE]

FewConfigs == {CfgScenario, CfgEnabled, CfgOdd, EmptyObject}

AllCategories == Range(Categories) \cup {"extra"}

\* A descriptor over the categories cs: the categories in scal are not
\* objects, the keys in miss are left out, every category also carries a key
\* the registry does not know.
MkDescriptor(cs, scal, miss, cfgAttach, cfgOther) ==
    [c \in cs |->
        IF c \in scal THEN ScalarCategory
        ELSE ObjectCategory(
                 [k \in ((IF c = "extra" THEN {} ELSE Range(UiKeys(c))) \ miss)
                            \cup {"unknownKey"} |->
                     IF k = "sendAttachments" THEN cfgAttach ELSE cfgOther])]

ScenarioDescriptor ==
    [c \in {"messaging"} |->
        ObjectCategory([k \in {"sendAttachments"} |-> CfgScenario])]

ShapeDescriptors ==
    {MkDescriptor(cs, scal, miss, cfgAttach, cfgOther) :
        cs \in SUBSET AllCategories,
        scal \in {{}, {"messaging"}, {"ui"}},
        miss \in {{}, {"sendAttachments"}, {"sendText", "buttonHelp"}},
        cfgAttach \in {CfgScenario, CfgEnabled},
        cfgOther \in {CfgOdd, CfgEnabled}}

ConfigDescriptors ==
    {MkDescriptor({"messaging"}, {}, {}, cfg, CfgEnabled) : cfg \in Configs}

WideDescriptors == {ScenarioDescriptor} \cup ShapeDescriptors \cup ConfigDescriptors

FewDescriptors ==
    {EmptyObject,
     ScenarioDescriptor,
     MkDescriptor(AllCategories, {}, {}, CfgEnabled, CfgEnabled),
     MkDescriptor({"messaging"}, {}, {"sendAttachments"}, CfgEnabled, CfgScenario)}

\* The descriptors of the chat specification: everything enabled with a limit
\* of 2, and the textarea disabled with no settings for the attach control.
ChatDescriptors ==
    {MkDescriptor(AllCategories, {}, {}, CfgEnabled, CfgEnabled),
     MkDescriptor({"messaging"}, {}, {"sendAttachments"}, CfgEnabled, CfgScenario)}

\* What the capabilities endpoint may answer, for a set of descriptors.
CapResponses(descs) ==
    {NetworkError(EmptyObject), Http(TRUE, FALSE, EmptyObject)}
        \cup {Http(ok, TRUE, d) : ok \in BOOLEAN, d \in descs}

\* The same without the body that does not parse.
ChatCapResponses ==
    {NetworkError(EmptyObject)}
        \cup {Http(ok, TRUE, d) : ok \in BOOLEAN, d \in ChatDescriptors}

(***************************************************************************)
(* The form: textarea text, send button, pending attachments.              *)
(***************************************************************************)
Whitespace == {" ", "\n", "\t"}

\* String.prototype.trim
RECURSIVE TrimStart(_)
TrimStart(s) ==
    IF s # <<>> /\ Head(s) \in Whitespace THEN TrimStart(Tail(s)) ELSE s

RECURSIVE TrimEnd(_)
TrimEnd(s) ==
    IF s # <<>> /\ s[Len(s)] \in Whitespace
    THEN TrimEnd(SubSeq(s, 1, Len(s) - 1)) ELSE s

Trim(s) == TrimEnd(TrimStart(s))

\* A plausible slip: the length is taken without trimming.
SendButtonDisabledNoTrim(pres, value, was) ==
    IF "sendButton" \notin pres \/ "sendText" \notin pres THEN was
    ELSE Len(value) = 0

\* _updateSendButtonState: the button's disabled property afterwards.
SendButtonDisabled(pres, value, was) ==
    IF "sendButton" \notin pres \/ "sendText" \notin pres THEN was
    ELSE Len(Trim(value)) = 0

\* _getUserMessageFromForm: FormData(form).get('chat-textarea').  FormData
\* leaves out a missing or disabled control, and get() is then null.
UserMessageFromForm(pres, el, value) ==
    IF "sendText" \in pres /\ ~el["sendText"].disabled THEN Some(value) ELSE Absent

\* A plausible slip: one entry per pending file.
RenderAttachmentsPreviewAll(pres, files, pv) ==
    IF "preview" \notin pres THEN pv
    ELSE [items |-> files,
          hidden |-> IF Len(files) > 0 THEN FALSE ELSE pv.hidden]

\* _renderAttachmentsPreview: the preview list afterwards.
RenderAttachmentsPreview(pres, files, pv) ==
    IF "preview" \notin pres THEN pv
    ELSE [items |-> IF Len(files) > 0 THEN <<files[1]>> ELSE <<>>,
          hidden |-> IF Len(files) > 0 THEN FALSE ELSE pv.hidden]

(***************************************************************************)
(* Transport: fetchMessages and sendMessage.  A message payload is a JSON  *)
(* array of cards (isArray) or some other JSON value.                      *)
(***************************************************************************)
ArrayPayload(items) == [isArray |-> TRUE, items |-> items]
ObjectPayload == [isArray |-> FALSE, items |-> <<>>]

\* fetchMessages: `if (!response.ok) messages = []` falls through to
\* `messages = await response.json()`; a rejection of either await is caught.
FetchMessages(resp) ==
    IF ~resp.net THEN ArrayPayload(<<>>)
    ELSE IF ~resp.parses THEN ArrayPayload(<<>>)
    ELSE resp.value

\* A plausible slip: the status of the response is not looked at.
SendMessageIgnoresStatus(resp) ==
    IF ~resp.net \/ ~resp.parses
    THEN [rejected |-> TRUE, value |-> ArrayPayload(<<>>)]
    ELSE [rejected |-> FALSE, value |-> resp.value]

\* sendMessage: rejects on a network error, on a non-2xx status and when the
\* body of a 2xx response does not parse.
SendMessage(resp) ==
    IF ~resp.net \/ ~resp.ok \/ ~resp.parses
    THEN [rejected |-> TRUE, value |-> ArrayPayload(<<>>)]
    ELSE [rejected |-> FALSE, value |-> resp.value]

(***************************************************************************)
(* _renderMessages.  The chat content afterwards, the empty block's        *)
(* display, and whether the pass raised.                                   *)
(***************************************************************************)
\* The children of .chat__content: the empty-state element and message
\* lists, in document order.
EmptyBlockNode == [kind |-> "emptyBlock", cards |-> <<>>]
ListNode(cards) == [kind |-> "list", cards |-> cards]

ContentHasEmptyBlock(cont) == \E i \in DOMAIN cont : cont[i].kind = "emptyBlock"
ContentLists(cont) == SelectSeq(cont, LAMBDA c : c.kind = "list")

\* Date: a time value is valid up to 100,000,000 days either side of the
\* epoch; the model counts timestamps in days.
MaxDateDays == 100000000
DateIsValid(t) == t >= -MaxDateDays /\ t <= MaxDateDays

\* String.prototype.startsWith.
StartsWith(str, prefix) ==
    Len(str) >= Len(prefix) /\ SubSeq(str, 1, Len(prefix)) = prefix

MimeImage == <<"i", "m", "a", "g", "e", "/">>
MimeVideo == <<"v", "i", "d", "e", "o", "/">>
MimeAudio == <<"a", "u", "d", "i", "o", "/">>

\* The base URL the file references are prefixed with.
ServerUrl == <<"s", ":", "/", "/", "h">>

\* A plausible slip: the relative url is used as it came.
FileUrlRelative(file) == file.url

\* `${SERVER_URL}${file.url}`
FileUrl(file) == ServerUrl \o file.url

\* The list item of one file: image (with a download link), video or audio;
\* nothing for any other MIME type.
FileItem(file) ==
    IF StartsWith(file.mimetype, MimeImage)
    THEN <<[tag |-> "img", src |-> FileUrl(file), href |-> Some(FileUrl(file))]>>
    ELSE IF StartsWith(file.mimetype, MimeVideo)
    THEN <<[tag |-> "video", src |-> FileUrl(file), href |-> Absent]>>
    ELSE IF StartsWith(file.mimetype, MimeAudio)
    THEN <<[tag |-> "audio", src |-> FileUrl(file), href |-> Absent]>>
    ELSE <<>>

RECURSIVE FileItems(_)
FileItems(files) ==
    IF files = <<>> THEN <<>> ELSE FileItem(Head(files)) \o FileItems(Tail(files))

\* The children of a card's body: the attachment-capable controller puts
\* the file list first when the message has files; then text and time.
CardBody(var, msg) ==
    (IF var = "rich" /\ Len(msg.files) > 0
     THEN <<[tag |-> "ul", items |-> FileItems(msg.files)]>> ELSE <<>>)
        \o <<[tag |-> "p", items |-> <<>>], [tag |-> "time", items |-> <<>>]>>

Card(var, msg) == [id |-> msg.id, body |-> CardBody(var, msg)]

\* The plain controller formats the datetime attribute with toISOString,
\* which raises a RangeError for an invalid date.
CardThrows(var, msg) == var = "simple" /\ ~DateIsValid(msg.timestamp)

\* The cards built before the first message whose card raises.
RECURSIVE Cards(_, _)
Cards(var, items) ==
    IF items = <<>> \/ CardThrows(var, Head(items)) THEN <<>>
    ELSE <<Card(var, Head(items))>> \o Cards(var, Tail(items))

CardsThrow(var, items) == \E i \in DOMAIN items : CardThrows(var, items[i])

\* replaceChildren() / innerHTML = ''
ClearedContent(cont) == <<>>

RenderMessages(var, pres, cont, hid, payload) ==
    IF "chatContent" \notin pres
    THEN [content |-> cont, emptyHidden |-> hid, threw |-> FALSE]
    ELSE IF payload.isArray /\ Len(payload.items) = 0
    THEN \* append(_emptyBlock) if there is one
         [content |-> ClearedContent(cont)
                        \o (IF "emptyBlock" \in pres THEN <<EmptyBlockNode>> ELSE <<>>),
          emptyHidden |-> hid, threw |-> FALSE]
    ELSE LET hidden == hid \/ "emptyBlock" \in pres
             \* not an array: forEach is not a function / not iterable
             threw == ~payload.isArray \/ CardsThrow(var, payload.items)
             cards == IF payload.isArray THEN Cards(var, payload.items) ELSE <<>>
         IN  [content |->
                  \* the plain variant attaches the list first and fills it
                  \* card by card; the other appends the filled list last
                  IF var = "simple" \/ ~threw
                  THEN ClearedContent(cont) \o <<ListNode(cards)>>
                  ELSE ClearedContent(cont),
              emptyHidden |-> hidden, threw |-> threw]

(***************************************************************************)
(* parseInt(s, 10) and Array.prototype.slice(0, end).                      *)
(***************************************************************************)
DigitValue(c) ==
    CASE c = "0" -> 0 [] c = "1" -> 1 [] c = "2" -> 2 [] c = "3" -> 3
      [] c = "4" -> 4 [] c = "5" -> 5 [] c = "6" -> 6 [] c = "7" -> 7
      [] c = "8" -> 8 [] c = "9" -> 9
IsDigit(c) == c \in {"0", "1", "2", "3", "4", "5", "6", "7", "8", "9"}

RECURSIVE ParseDigits(_, _)
ParseDigits(s, acc) ==
    IF s # <<>> /\ IsDigit(Head(s))
    THEN ParseDigits(Tail(s), acc * 10 + DigitValue(Head(s)))
    ELSE acc

\* [nan |-> TRUE] when no digit follows the optional sign.
ParseInt(str) ==
    LET s == TrimStart(str)
        neg == s # <<>> /\ Head(s) = "-"
        body == IF s # <<>> /\ Head(s) \in {"-", "+"} THEN Tail(s) ELSE s
    IN  IF body = <<>> \/ ~IsDigit(Head(body)) THEN [nan |-> TRUE, val |-> 0]
        ELSE [nan |-> FALSE,
              val |-> IF neg THEN -ParseDigits(body, 0) ELSE ParseDigits(body, 0)]

SliceTo(arr, end) ==
    LET e == IF end.nan THEN 0
             ELSE IF end.val < 0 THEN (IF Len(arr) + end.val < 0 THEN 0
                                       ELSE Len(arr) + end.val)
             ELSE IF end.val > Len(arr) THEN Len(arr) ELSE end.val
    IN  SubSeq(arr, 1, e)

(***************************************************************************)
(* Inputs of the chat: texts typed, files picked, keys pressed, answers of *)
(* the messages endpoint.                                                  *)
(***************************************************************************)
Texts == {<<>>, <<" ">>, <<"\n", "a", " ">>}
DefaultValues == {<<>>}
Picks == {<<"f1">>, <<"f1", "f2", "f3">>}
\* Keys pressed: <<key, shiftKey>>
Keys == {<<"Enter", FALSE>>, <<"Enter", TRUE>>, <<"a", FALSE>>}

MessageWith(id, timestamp, files) ==
    [id |-> id, timestamp |-> timestamp, files |-> files]
Message(id) == MessageWith(id, 20000, <<>>)
MessageLists ==
    {<<>>, <<Message("m1")>>, <<Message("m2"), Message("m1")>>}

MessageResponses ==
    {NetworkError(ArrayPayload(<<>>))}
        \cup {Http(ok, FALSE, ArrayPayload(<<>>)) : ok \in BOOLEAN}
        \cup {Http(ok, TRUE, ArrayPayload(l)) : ok \in BOOLEAN, l \in MessageLists}
        \cup {Http(ok, TRUE, ObjectPayload) : ok \in BOOLEAN}

\* What the send endpoint may answer.
SendResponses ==
    {NetworkError(ArrayPayload(<<>>)),
     Http(FALSE, TRUE, ArrayPayload(<<Message("m1")>>)),
     Http(TRUE, FALSE, ArrayPayload(<<>>)),
     Http(TRUE, TRUE, ObjectPayload)}
        \cup {Http(TRUE, TRUE, ArrayPayload(l)) : l \in MessageLists}

\* The DOMs of the capability specification: every element, or registry
\* elements missing.  The plain variant has no attach button field of its
\* own: its attach control is only the registry slot.
PresentConfigs(var) ==
    {AllElements \ miss :
        miss \in {{}, {"sendAttachments"}, {"sendText"},
                  {"buttonHelp", "searchMessages"}}}

\* The DOMs of the chat specification: the attachment-capable variant with
\* every element, the plain variant also with one element missing.
ChatConfigs(var) ==
    IF var = "rich" THEN {AllElements}
    ELSE {AllElements}
             \cup {AllElements \ {e} :
                     e \in {"sendButton", "sendText", "form", "emptyBlock"}}

DirtyAttrs ==
    [disabled |-> TRUE, hasTooltipClass |-> TRUE, dataTooltip |-> Some("old"),
     dataLimit |-> Some(<<"5">>), dataTypes |-> Some(<<"[", "]">>)]


(***************************************************************************)
(* Initial state: the controller constructed, init() not yet called.       *)
(***************************************************************************)
NoAnswers ==
    [caps |-> NetworkError(EmptyObject), load |-> NetworkError(ArrayPayload(<<>>))]

\* The value of the history of overtaken requests where it is not kept.
NotFollowed == {-1}

BotInitFollowing(attrs, doms, ans, hist) ==
    /\ answers \in ans
    /\ overtaken \in hist
    /\ variant \in Variants
    /\ present \in doms[variant]
    /\ elem \in {[k \in RegistryKeys |-> a] : a \in attrs}
    /\ capsPc = "idle"
    /\ capsRuns = 0
    /\ lastCaps = Absent
    /\ initDone = FALSE
    /\ defaultValue \in DefaultValues
    /\ text = defaultValue
    /\ sendDisabled = FALSE
    /\ selectedFiles = <<>>
    /\ chooser = Absent
    /\ preview = [items |-> <<>>, hidden |-> TRUE]
    /\ inflight = <<>>
    /\ loadPc = "idle"
    /\ content = IF {"chatContent", "emptyBlock"} \subseteq present
                 THEN <<EmptyBlockNode>> ELSE <<>>
    /\ emptyHidden = FALSE
    \* .chat__skeleton carries the class `hidden` until _showSkeleton
    \* removes it.
    /\ skeletonHidden = TRUE
    /\ event = [kind |-> "none"]

\* The tooltip manager constructed, nothing hovered yet; _tooltipElement and
\* _currentTarget are still undefined.
\* _initEventListeners: the event types the manager registers on document.
TipEvents == {"mouseover", "mouseout", "mousemove"}

TipInit(roots, views) ==
    /\ listeners = TipEvents
    /\ created = 0
    /\ currentTarget = Absent
    /\ tooltipElement = Absent
    /\ appRoot \in roots
    /\ viewport \in views
    /\ tipEvent = [kind |-> "none"]

BotInitAnswering(attrs, doms, ans) ==
    BotInitFollowing(attrs, doms, ans, {NotFollowed})

BotInit(attrs, doms) == BotInitAnswering(attrs, doms, {NoAnswers})

\* Where the tooltip manager is not exercised its surroundings are fixed.
InitWith(attrs, doms) ==
    BotInit(attrs, doms) /\ TipInit({TRUE}, {[w |-> 0, h |-> 0]})

Init == InitWith({BlankAttrs}, [v \in Variants |-> ChatConfigs(v)])

(***************************************************************************)
(* init(): starts updateUiCapabilities, binds the handlers, starts         *)
(* _loadMessages (which shows the skeleton), sets the send button.         *)
(***************************************************************************)
ControllerInit ==
    /\ ~initDone
    /\ initDone' = TRUE
    /\ capsPc' = "fetching"
    /\ capsRuns' = capsRuns + 1
    /\ loadPc' = "fetching"
    /\ skeletonHidden' =
           IF {"chatContent", "skeleton"} \subseteq present THEN FALSE
           ELSE skeletonHidden
    /\ sendDisabled' = SendButtonDisabled(present, text, sendDisabled)
    /\ event' = [kind |-> "init"]
    /\ UNCHANGED <<elem, lastCaps, domVars, text, selectedFiles, chooser, preview,
                   inflight, content, emptyHidden, overtaken>>

(***************************************************************************)
(* updateUiCapabilities, called again once the previous call has settled.  *)
(***************************************************************************)
CapsCall ==
    /\ initDone
    /\ capsPc \in {"done", "rejected"}
    /\ capsRuns < MaxCapsCalls
    /\ capsPc' = "fetching"
    /\ capsRuns' = capsRuns + 1
    /\ event' = [kind |-> "capsCall"]
    /\ UNCHANGED <<elem, lastCaps, domVars, initDone, formVars, inflight, chatVars>>

\* The capabilities request settles: the rest of updateUiCapabilities runs.
CapsSettle(resp) ==
    LET fetched == FetchCapabilities(resp)
        r == Reconcile(elem, present, variant, fetched.value)
    IN  /\ capsPc = "fetching"
        /\ IF fetched.rejected
           THEN /\ capsPc' = "rejected"
                /\ UNCHANGED <<elem, lastCaps>>
           ELSE /\ capsPc' = IF r.threw THEN "rejected" ELSE "done"
                /\ elem' = r.elem
                /\ lastCaps' = Some(fetched.value)
        /\ event' = [kind |-> "caps",
                     failed |-> ~resp.net \/ ~resp.ok,
                     fetched |-> ~fetched.rejected,
                     caps |-> fetched.value,
                     prev |-> lastCaps,
                     before |-> elem,
                     threw |-> fetched.rejected \/ r.threw]
        /\ UNCHANGED <<capsRuns, domVars, initDone, formVars, inflight, chatVars>>

\* The descriptors a run may receive: any of `first` on the first run, later
\* the previous run's again or one of a few.
RunDescriptors(first) ==
    IF lastCaps = Absent THEN first ELSE FewDescriptors \cup {lastCaps[1]}

CapsResolve == \E resp \in ChatCapResponses : CapsSettle(resp)

CapsResolveWide == \E resp \in CapResponses(RunDescriptors(WideDescriptors)) : CapsSettle(resp)

(***************************************************************************)
(* _handleChatFormSubmit.                                                  *)
(***************************************************************************)
\* A plausible slip: the trailing statements forget the pending files.
AfterSendKeepFiles ==
    /\ text' = defaultValue
    /\ UNCHANGED <<selectedFiles, preview>>
    /\ sendDisabled' = SendButtonDisabled(present, defaultValue, sendDisabled)

\* The statements after the try block: reset the form, and in the
\* attachment-capable variant drop the pending files and redraw the preview;
\* then recompute the send button.
AfterSend ==
    /\ text' = defaultValue
    /\ selectedFiles' = <<>>
    /\ preview' = IF variant = "rich"
                  THEN RenderAttachmentsPreview(present, <<>>, preview)
                  ELSE preview
    /\ sendDisabled' = SendButtonDisabled(present, defaultValue, sendDisabled)

Slots == 1 .. MaxInflight
\* The history request of init() among the requests, issued before any POST.
LoadSlot == 0
BusySlots == {inflight[i].slot : i \in DOMAIN inflight}
FreeSlot == CHOOSE s \in Slots \ BusySlots : \A t \in Slots \ BusySlots : s <= t

\* A plausible slip: any non-null message is sent, the empty string too.
ShouldSendAnyString(message) == IsSome(message)

\* `if (message)`: a non-null, non-empty string.
ShouldSend(message) == IsSome(message) /\ message[1] # <<>>

\* The handler up to its await: the message is read from the form and, if it
\* is non-empty, POSTed (sendMessage issues one fetch); otherwise the handler
\* runs to its end.  `base` describes the event that led here.
SubmitStart(base) ==
    LET message == UserMessageFromForm(present, elem, text)
        files == IF variant = "rich" THEN selectedFiles ELSE <<>>
    IN  /\ "form" \in present
        /\ event' = base @@ [message |-> message, files |-> files,
                              inflightBefore |-> Len(inflight),
                              afterRemove |-> event.kind = "remove"]
        /\ IF ShouldSend(message)
           THEN /\ Len(inflight) < MaxInflight
                /\ inflight' = Append(inflight, [slot |-> FreeSlot, text |-> message[1]])
                /\ UNCHANGED <<text, selectedFiles, preview, sendDisabled>>
           ELSE /\ UNCHANGED inflight
                /\ AfterSend

\* A submit event of the form (send button, implicit submission, ...).
SubmitEvent ==
    /\ initDone
    /\ SubmitStart([kind |-> "submit"])
    /\ UNCHANGED <<capVars, domVars, initDone, chooser, chatVars>>

RenderKind(payload, r) ==
    IF r.threw THEN "threw"
    ELSE IF payload.isArray /\ Len(payload.items) = 0 THEN "zero" ELSE "some"

Without(seq, i) == SubSeq(seq, 1, i - 1) \o SubSeq(seq, i + 1, Len(seq))

\* The i-th POST in flight settles: render the answer or log the failure,
\* then the trailing statements.
SubmitSettle(i, resp) ==
    LET sent == SendMessage(resp)
        r == RenderMessages(variant, present, content, emptyHidden, sent.value)
    IN  /\ i \in DOMAIN inflight
        /\ IF sent.rejected
           THEN UNCHANGED <<content, emptyHidden>>
           ELSE /\ content' = r.content
                /\ emptyHidden' = r.emptyHidden
        /\ inflight' = Without(inflight, i)
        /\ overtaken' =
               IF overtaken = NotFollowed THEN overtaken
               ELSE (overtaken \ {inflight[i].slot})
                        \cup (IF sent.rejected \/ r.threw \/ "chatContent" \notin present
                              THEN {}
                              ELSE {inflight[j].slot : j \in 1..(i - 1)}
                                       \cup (IF loadPc = "fetching" THEN {LoadSlot}
                                             ELSE {}))
        /\ event' = [kind |-> "settle", slot |-> inflight[i].slot,
                     stale |-> inflight[i].slot \in overtaken,
                     failed |-> ~resp.net \/ ~resp.ok,
                     rejected |-> sent.rejected,
                     payload |-> sent.value,
                     render |-> IF sent.rejected \/ "chatContent" \notin present
                                THEN "none" ELSE RenderKind(sent.value, r),
                     inflightBefore |-> Len(inflight)]
        /\ AfterSend
        /\ UNCHANGED <<capVars, domVars, initDone, chooser, loadPc, skeletonHidden>>

\* The POST that holds slot s settles.
SettleSlot(s) ==
    \E i \in DOMAIN inflight : \E resp \in SendResponses :
        inflight[i].slot = s /\ SubmitSettle(i, resp)

SubmitResolve == \E s \in Slots : SettleSlot(s)

(***************************************************************************)
(* Textarea handlers.                                                      *)
(***************************************************************************)
\* The user can type only into a textarea that exists and is not disabled.
TextareaUsable == initDone /\ "sendText" \in present /\ ~elem["sendText"].disabled

\* _handleTextareaInput, after the browser changed the value.
TextareaInput ==
    /\ TextareaUsable
    /\ \E v \in Texts \ {text} :
          /\ text' = v
          /\ sendDisabled' = SendButtonDisabled(present, v, sendDisabled)
    /\ event' = [kind |-> "input"]
    /\ UNCHANGED <<capVars, domVars, initDone, selectedFiles, chooser, preview,
                   inflight, chatVars>>

\* A plausible slip: the send button's state is not consulted.
KeydownRequestsAlways(key, shift) == key = "Enter" /\ ~shift /\ "form" \in present

\* `this._chatForm && !this._chatSendButton?.disabled` under Enter without Shift
KeydownRequests(key, shift) ==
    /\ key = "Enter" /\ ~shift
    /\ "form" \in present
    /\ ~("sendButton" \in present /\ sendDisabled)

KeydownPrevents(key, shift) == key = "Enter" /\ ~shift

\* _handleTextareaKeydown; requestSubmit() dispatches the submit event, so the
\* submit handler runs up to its await inside this step.
TextareaKeydown ==
    /\ TextareaUsable
    /\ \E pressed \in Keys :
          LET key == pressed[1]
              shift == pressed[2]
              base == [kind |-> "keydown", key |-> key, shift |-> shift,
                       prevented |-> KeydownPrevents(key, shift),
                       requested |-> KeydownRequests(key, shift),
                       disabledBefore |-> sendDisabled]
          IN  IF KeydownRequests(key, shift)
              THEN SubmitStart(base)
              ELSE event' = base /\ UNCHANGED <<text, sendDisabled, selectedFiles,
                                                 preview, inflight>>
    /\ UNCHANGED <<capVars, domVars, initDone, chooser, chatVars>>

(***************************************************************************)
(* Attachments (attachment-capable variant only).                          *)
(***************************************************************************)
\* _handleAttachButtonClick: a file input whose accept list is the parsed
\* data-types of the attach control joined by commas, and which carries the
\* control's data-limit; both only if the attribute is non-empty.  When
\* JSON.parse raises, the handler ends before the input is used.
AttachClick ==
    /\ initDone
    /\ variant = "rich"
    /\ "sendAttachments" \in present
    /\ ~elem["sendAttachments"].disabled
    /\ LET limit == elem["sendAttachments"].dataLimit
           types == elem["sendAttachments"].dataTypes
           reads == IsSome(types) /\ types[1] # <<>>
           parsed == JsonParseArray(IF reads THEN types[1] ELSE <<"[", "]">>)
       IN  /\ chooser' =
                  IF ~parsed.ok THEN chooser
                  ELSE Some([limit |-> IF IsSome(limit) /\ limit[1] # <<>>
                                       THEN limit ELSE Absent,
                             accept |-> IF reads THEN Some(JoinComma(parsed.value))
                                        ELSE Absent])
           /\ event' = [kind |-> "attach", threw |-> ~parsed.ok,
                        types |-> IF reads /\ parsed.ok THEN Some(parsed.value)
                                  ELSE Absent]
    /\ UNCHANGED <<capVars, domVars, initDone, text, sendDisabled, selectedFiles,
                   preview, inflight, chatVars>>

\* The change handler of that input: keep the first `limit` files.
FileChange ==
    /\ IsSome(chooser)
    /\ \E picked \in Picks :
          LET attr == chooser[1].limit
              limit == ParseInt(IF IsSome(attr) THEN attr[1] ELSE <<"1">>)
              kept == SliceTo(picked, limit)
          IN  /\ selectedFiles' = kept
              /\ preview' = RenderAttachmentsPreview(present, kept, preview)
              /\ event' = [kind |-> "change", picked |-> picked, limit |-> attr]
    /\ chooser' = Absent
    /\ UNCHANGED <<capVars, domVars, initDone, text, sendDisabled, inflight, chatVars>>

\* A plausible slip: the entry is removed but the pending set is kept.
RemoveClickKeepsFiles ==
    /\ variant = "rich"
    /\ "preview" \in present
    /\ preview.items # <<>>
    /\ preview' = [items |-> <<>>, hidden |-> TRUE]
    /\ event' = [kind |-> "remove"]
    /\ UNCHANGED <<capVars, domVars, initDone, text, sendDisabled, chooser,
                   selectedFiles, inflight, chatVars>>

\* The click handler of the preview entry's remove button.
RemoveClick ==
    /\ variant = "rich"
    /\ "preview" \in present
    /\ preview.items # <<>>
    /\ selectedFiles' = <<>>
    /\ preview' = [RenderAttachmentsPreview(present, <<>>, preview) EXCEPT !.hidden = TRUE]
    /\ event' = [kind |-> "remove"]
    /\ UNCHANGED <<capVars, domVars, initDone, text, sendDisabled, chooser,
                   inflight, chatVars>>

(***************************************************************************)
(* _loadMessages: the history request settles.                             *)
(***************************************************************************)
\* A plausible slip: the skeleton stays until the capabilities are known.
HideSkeletonWhenCapsDone(pres, hidden) ==
    IF "skeleton" \in pres /\ capsPc # "fetching" THEN TRUE ELSE hidden

\* A plausible slip: the history is awaited together with the capabilities
\* and rendered only once these have been reconciled.
LoadPendingWithCaps == loadPc = "fetching" /\ capsPc = "done"

\* _loadMessages is suspended at `await fetchMessages()`.
LoadPending == loadPc = "fetching"

\* _hideSkeleton
HideSkeleton(pres, hidden) == IF "skeleton" \in pres THEN TRUE ELSE hidden

\* A plausible slip: the skeleton is hidden at the end of the try block, so
\* not after a render pass that raised.
FinallyRunsUnlessThrown(threw) == ~threw

\* `finally`: runs whatever the try block and the catch did.
FinallyRuns(threw) == TRUE

LoadSettle(resp) ==
    LET payload == FetchMessages(resp)
        r1 == RenderMessages(variant, present, content, emptyHidden, payload)
        \* catch: _renderMessages([])
        r2 == RenderMessages(variant, present, r1.content, r1.emptyHidden,
                             ArrayPayload(<<>>))
        r == IF r1.threw THEN r2 ELSE r1
    IN  /\ LoadPending
        /\ loadPc' = "done"
        /\ content' = r.content
        /\ emptyHidden' = r.emptyHidden
        \* finally: _hideSkeleton
        /\ skeletonHidden' = IF FinallyRuns(r1.threw)
                              THEN HideSkeleton(present, skeletonHidden)
                              ELSE skeletonHidden
        /\ overtaken' = overtaken \ {LoadSlot}
        /\ event' = [kind |-> "load",
                     stale |-> LoadSlot \in overtaken,
                     failed |-> ~resp.net \/ ~resp.ok,
                     payload |-> payload,
                     fellBack |-> r1.threw,
                     render |-> IF "chatContent" \notin present THEN "none"
                                ELSE IF r1.threw THEN "zero"
                                ELSE RenderKind(payload, r1)]
        /\ UNCHANGED <<capVars, domVars, initDone, formVars, inflight>>

LoadResolve == \E resp \in MessageResponses : LoadSettle(resp)

(***************************************************************************)
(* Specifications.                                                         *)
(***************************************************************************)
Next ==
    \/ ControllerInit
    \/ CapsResolve
    \/ LoadResolve
    \/ TextareaInput
    \/ TextareaKeydown
    \/ SubmitEvent
    \/ SubmitResolve
    \/ AttachClick
    \/ FileChange
    \/ RemoveClick

Spec == Init /\ [][Next]_vars

\* The submit path alone, for the liveness of the submit handler: the form,
\* keyboard and attachment handlers and the capabilities request, which
\* fails or disables the textarea; the history request stays unanswered.
\* Every POST in flight is eventually answered or fails.
LiveConfigs(var) ==
    IF var = "rich" THEN {AllElements}
    ELSE {AllElements, AllElements \ {"sendButton"}}

InitLive == InitWith({BlankAttrs}, [v \in Variants |-> LiveConfigs(v)])

CapsResolveLive ==
    \E resp \in {NetworkError(EmptyObject),
                 Http(TRUE, TRUE,
                      MkDescriptor({"messaging"}, {}, {"sendAttachments"},
                                   CfgEnabled, CfgScenario))} :
        CapsSettle(resp)

NextLive ==
    \/ ControllerInit
    \/ CapsResolveLive
    \/ TextareaInput
    \/ TextareaKeydown
    \/ SubmitEvent
    \/ SubmitResolve
    \/ AttachClick
    \/ FileChange
    \/ RemoveClick

FairSpec ==
    InitLive /\ [][NextLive]_vars /\ \A s \in Slots : WF_vars(SettleSlot(s))

\* The reconciler alone, over a wide set of descriptors and with
\* updateUiCapabilities called repeatedly.
InitCaps == InitWith({BlankAttrs, DirtyAttrs}, [v \in Variants |-> PresentConfigs(v)])

NextCaps ==
    \/ ControllerInit
    \/ CapsCall
    \/ CapsResolveWide

SpecCaps == InitCaps /\ [][NextCaps]_vars

\* The three kinds of request side by side, each with answers that fail and
\* one that succeeds; the capabilities and the history of init() are
\* answered eventually.
CapsResolveAsync ==
    \E resp \in {NetworkError(EmptyObject), Http(TRUE, FALSE, EmptyObject),
                  Http(TRUE, TRUE,
                       MkDescriptor(AllCategories, {}, {}, CfgEnabled, CfgEnabled))} :
        CapsSettle(resp)

LoadResolveAsync ==
    \E resp \in {NetworkError(ArrayPayload(<<>>)),
                  Http(FALSE, TRUE, ObjectPayload),
                  Http(TRUE, TRUE, ArrayPayload(<<Message("m2"), Message("m1")>>))} :
        LoadSettle(resp)

SubmitResolveAsync ==
    \E i \in DOMAIN inflight :
        \E resp \in {NetworkError(ArrayPayload(<<>>)),
                      Http(TRUE, TRUE, ArrayPayload(<<Message("m1")>>))} :
            SubmitSettle(i, resp)

InitAsync == InitWith({BlankAttrs}, [v \in Variants |-> {AllElements}])

NextAsync ==
    \/ ControllerInit
    \/ CapsResolveAsync
    \/ LoadResolveAsync
    \/ TextareaInput
    \/ SubmitEvent
    \/ SubmitResolveAsync
    \/ AttachClick
    \/ FileChange

FairAsync ==
    /\ InitAsync /\ [][NextAsync]_vars
    /\ WF_vars(CapsResolveAsync) /\ WF_vars(LoadResolveAsync)

\* init() followed to the end of its two requests, whose answers are fixed
\* in advance: the two continuations run in either order.
OrderAnswers ==
    {[caps |-> c, load |-> l] :
        c \in CapResponses(ChatDescriptors), l \in MessageResponses}

InitOrder ==
    /\ BotInitAnswering({BlankAttrs}, [v \in Variants |-> ChatConfigs(v)],
                        OrderAnswers)
    /\ TipInit({TRUE}, {[w |-> 0, h |-> 0]})

CapsResolveOrder == CapsSettle(answers.caps)

LoadResolveOrder == LoadSettle(answers.load)

NextOrder ==
    \/ ControllerInit
    \/ CapsResolveOrder
    \/ LoadResolveOrder

SpecOrder == InitOrder /\ [][NextOrder]_vars

\* Rendering alone, over histories and send answers whose messages carry
\* files of several MIME types and timestamps inside and outside the range
\* of Date; the order in which the requests were issued is followed.
FileOf(url, mimetype) == [url |-> url, mimetype |-> mimetype]
FileImage == FileOf(<<"/", "i">>, MimeImage \o <<"x">>)
FileVideo == FileOf(<<"/", "v">>, MimeVideo \o <<"x">>)
FileAudio == FileOf(<<"/", "a">>, MimeAudio \o <<"x">>)
FilePdf == FileOf(<<"/", "p">>, <<"a", "p", "p", "/", "x">>)
FileUpperImage == FileOf(<<"/", "u">>, <<"I", "m", "a", "g", "e", "/", "x">>)
FileNoSlash == FileOf(<<"/", "n">>, <<"i", "m", "a", "g", "e">>)

RenderLists ==
    {<<>>,
     <<Message("m1")>>,
     <<Message("m2"), Message("m1")>>,
     <<MessageWith("m4", 20000,
                   <<FilePdf, FileImage, FileVideo, FileNoSlash, FileAudio,
                     FileUpperImage, FileImage>>)>>,
     <<MessageWith("m3", 20000, <<FilePdf>>), Message("m1")>>,
     <<Message("m1"), MessageWith("m5", MaxDateDays + 1, <<>>), Message("m3")>>}

RenderResponses ==
    {NetworkError(ArrayPayload(<<>>)), Http(TRUE, TRUE, ObjectPayload)}
        \cup {Http(TRUE, TRUE, ArrayPayload(l)) : l \in RenderLists}

LoadResolveRender == \E resp \in RenderResponses : LoadSettle(resp)

SubmitResolveRender ==
    \E i \in DOMAIN inflight : \E resp \in RenderResponses : SubmitSettle(i, resp)

InitRender ==
    /\ BotInitFollowing({BlankAttrs},
                        [v \in Variants |-> {AllElements, AllElements \ {"emptyBlock"}}],
                        {NoAnswers}, {{}})
    /\ TipInit({TRUE}, {[w |-> 0, h |-> 0]})

NextRender ==
    \/ ControllerInit
    \/ LoadResolveRender
    \/ TextareaInput
    \/ SubmitEvent
    \/ SubmitResolveRender

SpecRender == InitRender /\ [][NextRender]_vars

\* The send path alone: the history of init() answered with cards or with
\* none, and every answer the send endpoint may give.
LoadResolveSend ==
    \E l \in MessageLists : LoadSettle(Http(TRUE, TRUE, ArrayPayload(l)))

InitSend ==
    InitWith({BlankAttrs},
             [v \in Variants |-> {AllElements, AllElements \ {"emptyBlock"}}])

NextSend ==
    \/ ControllerInit
    \/ LoadResolveSend
    \/ TextareaInput
    \/ SubmitEvent
    \/ SubmitResolve

SpecSend == InitSend /\ [][NextSend]_vars

\* The history load alone, on pages with and without the skeleton, the chat
\* content and the empty block, over every answer of the history endpoint
\* and a history with a timestamp outside the range of Date; sends go on
\* beside it.  The history request is answered eventually.
LoadResolveLoad ==
    \E resp \in MessageResponses
                    \cup {Http(TRUE, TRUE,
                               ArrayPayload(<<Message("m1"),
                                              MessageWith("m5", MaxDateDays + 1, <<>>)>>))} :
        LoadSettle(resp)

InitLoad ==
    InitWith({BlankAttrs},
             [v \in Variants |->
                 {AllElements} \cup {AllElements \ {e} :
                                        e \in {"skeleton", "chatContent", "emptyBlock"}}])

NextLoad ==
    \/ ControllerInit
    \/ LoadResolveLoad
    \/ TextareaInput
    \/ SubmitEvent
    \/ SubmitResolveAsync

FairLoad == InitLoad /\ [][NextLoad]_vars /\ WF_vars(LoadResolveLoad)

\* The attachment path alone, over the limits and type lists a descriptor
\* may carry for the attach control.
TypeBack == <<"\\", "x">>
FileLimits == {Absent, Some(-1), Some(0), Some(1), Some(2), Some(12)}
FileTypeLists ==
    TypeLists \cup {Some(<<TypeBack>>), Some(<<TypeOdd, TypeBack, TypeImage>>)}

FileDescriptors ==
    {MkDescriptor({"messaging"}, {}, {},
                  MkConfig(Some("true"), l, t, Absent, Absent), CfgEnabled) :
        l \in FileLimits, t \in FileTypeLists}

CapsResolveFiles ==
    \E resp \in {NetworkError(EmptyObject)}
                    \cup {Http(TRUE, TRUE, d) : d \in FileDescriptors} :
        CapsSettle(resp)

InitFiles ==
    InitWith({BlankAttrs},
             [v \in Variants |-> {AllElements, AllElements \ {"preview"}}])

NextFiles ==
    \/ ControllerInit
    \/ CapsCall
    \/ CapsResolveFiles
    \/ AttachClick
    \/ FileChange
    \/ RemoveClick
    \/ SubmitEvent

SpecFiles == InitFiles /\ [][NextFiles]_vars

(***************************************************************************)
(* TooltipManager: delegated mouseover / mouseout / mousemove listeners on *)
(* the document, constructed with targetClass "has-tooltip" and            *)
(* dataAttribute "data-tooltip".                                           *)
(***************************************************************************)
\* Nodes an event may name.  "outer" holds "inner" and "plain"; the attach
\* control carries whatever the reconciler wrote on it;
\* "document" is a Node that is no Element.
StaticNodes == {"outer", "inner", "plain", "noAttr", "noClass", "sibling"}
TipNodes == StaticNodes \cup {"document"} \cup ({"sendAttachments"} \cap present)

\* Not a Node: a null relatedTarget (the pointer left the window).
NoNode == "none"

IsElement(n) == n \in TipNodes \ {"document"}

ParentOf(n) == IF n \in {"inner", "plain"} THEN "outer" ELSE "body"

\* a.contains(b): b is a or a descendant of a.
Contains(a, b) == b = a \/ ParentOf(b) = a

\* classList.contains(targetClass) and getAttribute(dataAttribute) of a node.
NodeMarks(n) ==
    CASE n = "outer" -> [cls |-> TRUE, attr |-> Some("Out")]
      [] n = "inner" -> [cls |-> TRUE, attr |-> Some("In")]
      [] n = "sibling" -> [cls |-> TRUE, attr |-> Some("Sib")]
      [] n = "plain" -> [cls |-> FALSE, attr |-> Absent]
      [] n = "noAttr" -> [cls |-> TRUE, attr |-> Absent]
      [] n = "noClass" -> [cls |-> FALSE, attr |-> Some("Hid")]
      [] n \in RegistryKeys ->
             [cls |-> elem[n].hasTooltipClass, attr |-> elem[n].dataTooltip]
      [] OTHER -> [cls |-> FALSE, attr |-> Absent]

\* A plausible slip: the content of the attribute is not looked at.
QualifiesByAttribute(n) ==
    IsElement(n) /\ NodeMarks(n).cls /\ IsSome(NodeMarks(n).attr)

\* The conditions of _handleMouseOver: an Element with the class, the
\* attribute, and truthy (non-empty) content.
Qualifies(n) ==
    /\ IsElement(n)
    /\ NodeMarks(n).cls
    /\ IsSome(NodeMarks(n).attr)
    /\ NodeMarks(n).attr[1] # ""

\* A plausible slip: a fresh label for every hover.
EnsureCreatesAlways(label) == TRUE

\* `if (this._tooltipElement) return;`
EnsureCreates(label) == ~IsSome(label)

\* _ensureTooltipElement: the label is created once, hidden at 0/0, and
\* appended to #App if there is one.
EnsureTooltipElement(label) ==
    IF ~EnsureCreates(label) THEN label
    ELSE Some([text |-> "", visible |-> FALSE, left |-> 0, top |-> 0,
               attached |-> appRoot])

\* A plausible slip: the first element entered stays tracked.
TrackedAfterOverFirstWins(target) ==
    IF IsSome(currentTarget) THEN currentTarget ELSE Some(target)

\* `this._currentTarget = target`
TrackedAfterOver(target) == Some(target)

MouseOver(target) ==
    /\ "mouseover" \in listeners
    /\ IF Qualifies(target)
       THEN /\ currentTarget' = TrackedAfterOver(target)
            /\ created' = IF EnsureCreates(tooltipElement) THEN created + 1
                           ELSE created
            /\ tooltipElement' =
                   Some([EnsureTooltipElement(tooltipElement)[1] EXCEPT
                            !.text = NodeMarks(target).attr[1],
                            !.visible = TRUE])
       ELSE UNCHANGED <<currentTarget, tooltipElement, created>>
    /\ tipEvent' = [kind |-> "over", target |-> target,
                    marks |-> NodeMarks(target),
                    targetBefore |-> currentTarget, labelBefore |-> tooltipElement]
    /\ UNCHANGED <<listeners, appRoot, viewport, botVars>>

HandleMouseOver == \E target \in TipNodes : MouseOver(target)

\* A plausible slip: every leave hides, also one into the tracked element.
LeaveHidesAlways(related) == TRUE

\* The two conditions of _handleMouseOut under which _hideTooltip runs.
LeaveHides(related) ==
    \/ related = NoNode
    \/ IsSome(currentTarget) /\ ~Contains(currentTarget[1], related)

\* _hideTooltip
HideTooltip ==
    /\ tooltipElement' =
           IF IsSome(tooltipElement)
           THEN Some([tooltipElement[1] EXCEPT !.visible = FALSE])
           ELSE tooltipElement
    /\ currentTarget' = Absent

MouseOut(related) ==
    /\ "mouseout" \in listeners
    /\ IF LeaveHides(related) THEN HideTooltip
       ELSE UNCHANGED <<currentTarget, tooltipElement>>
    /\ tipEvent' = [kind |-> "out", related |-> related,
                    targetBefore |-> currentTarget, labelBefore |-> tooltipElement]
    /\ UNCHANGED <<listeners, created, appRoot, viewport, botVars>>

HandleMouseOut == \E related \in TipNodes \cup {NoNode} : MouseOut(related)

\* The pixel constants of _handleMouseMove.
TipOffsetX == 10
TipOffsetY == 8
TipMargin == 5

\* A plausible slip: the right and bottom clamps are left out.
TipPositionNoClamp(x, y, w, h, vw, vh) ==
    [left |-> IF x + TipOffsetX < 0 THEN TipMargin ELSE x + TipOffsetX,
     top |-> IF y - TipOffsetY < 0 THEN TipMargin ELSE y - TipOffsetY]

\* The left/top written by _handleMouseMove for pointer (x, y), label size
\* w x h and viewport vw x vh: offset, right and bottom clamps, then the
\* left and top floors.
TipPosition(x, y, w, h, vw, vh) ==
    LET left0 == x + TipOffsetX
        top0 == y - TipOffsetY
        left1 == IF left0 + w > vw THEN vw - w - TipMargin ELSE left0
        top1 == IF top0 + h > vh THEN vh - h - TipMargin ELSE top0
    IN  [left |-> IF left1 < 0 THEN TipMargin ELSE left1,
         top |-> IF top1 < 0 THEN TipMargin ELSE top1]

\* Pointer positions (pageX, pageY), label sizes and viewports.
PointerXs == {0, 30}
PointerYs == {0, 10, 30}
LabelWidths == {10, 33, 38}
LabelHeights == {10, 38}
Viewports == {[w |-> 40, h |-> 40], [w |-> 60, h |-> 50]}

\* getBoundingClientRect of the label: a label that is in no document has
\* an empty box.
LabelRects ==
    IF IsSome(tooltipElement) /\ tooltipElement[1].attached
    THEN {[w |-> w, h |-> h] : w \in LabelWidths, h \in LabelHeights}
    ELSE {[w |-> 0, h |-> 0]}

MouseMove(x, y, rect) ==
    LET tracked == IsSome(currentTarget) /\ IsSome(tooltipElement)
        pos == TipPosition(x, y, rect.w, rect.h, viewport.w, viewport.h)
    IN  /\ "mousemove" \in listeners
        /\ tooltipElement' =
               IF tracked
               THEN Some([tooltipElement[1] EXCEPT !.left = pos.left, !.top = pos.top])
               ELSE tooltipElement
        /\ tipEvent' = [kind |-> "move", x |-> x, y |-> y, rect |-> rect,
                        tracked |-> tracked]
        /\ UNCHANGED <<listeners, created, currentTarget, appRoot, viewport, botVars>>

HandleMouseMove ==
    \E x \in PointerXs, y \in PointerYs, rect \in LabelRects : MouseMove(x, y, rect)

\* A plausible slip: the mousemove listener is left registered.
ListenersAfterDestroyKeepsMove(ls) == ls \cap {"mousemove"}

\* The three removeEventListener calls: the handlers are the arrow-function
\* fields that were registered, so each call removes its listener.
ListenersAfterDestroy(ls) == ls \ TipEvents

\* destroy(): the listeners are removed; the label is detached and forgotten
\* if it has a parent (`?.` reads undefined from a missing label, no throw).
Destroy ==
    /\ listeners' = ListenersAfterDestroy(listeners)
    /\ tooltipElement' =
           IF IsSome(tooltipElement) /\ tooltipElement[1].attached
           THEN Absent ELSE tooltipElement
    /\ tipEvent' = [kind |-> "destroy", labelBefore |-> tooltipElement]
    /\ UNCHANGED <<created, currentTarget, appRoot, viewport, botVars>>

\* The capabilities answers of the tooltip specification: the scenario's
\* tooltip, and settings with hasTooltip but no tooltip text.
CapsResolveTip ==
    \E resp \in {Http(TRUE, TRUE, ScenarioDescriptor),
                 Http(TRUE, TRUE,
                      MkDescriptor({"messaging"}, {}, {}, CfgOdd, CfgEnabled))} :
        CapsSettle(resp)

\* The tooltip manager beside the attachment-capable controller.
InitTooltip ==
    /\ BotInit({BlankAttrs}, [v \in Variants |-> {AllElements}])
    /\ variant = "rich"
    /\ TipInit(BOOLEAN, Viewports)

NextTooltip ==
    \/ ControllerInit
    \/ CapsResolveTip
    \/ HandleMouseOver
    \/ HandleMouseOut
    \/ HandleMouseMove
    \/ Destroy

SpecTooltip == InitTooltip /\ [][NextTooltip]_vars

(***************************************************************************)
(* Capability reconciliation.                                              *)
(***************************************************************************)
\* The run of updateUiCapabilities that has just ended received a descriptor.
CapsRan == event.kind = "caps" /\ event.fetched

\* The settings the descriptor caps holds for registry key k, if any.
ConfigOf(caps, k) ==
    LET cs == {c \in Range(Categories) :
                  k \in Range(UiKeys(c)) /\ HasConfig(caps, c, k)}
    IN  IF cs = {} THEN Absent ELSE Some(caps[CHOOSE c \in cs : TRUE].keys[k])

\* C1: a run of the reconciliation that receives the descriptor the previous
\* run received leaves every registry element's disabled attribute,
\* has-tooltip class, data-tooltip, data-limit and data-types as that
\* previous run left them: twice is the same as once.
C1_ReconcileIdempotent ==
    (CapsRan /\ event.prev = Some(event.caps)) => elem = event.before

\* C1 witness: a second run with the same descriptor, on an element the
\* first run had given attributes of its own.
C1_SecondRunSameDescriptor ==
    /\ CapsRan
    /\ capsRuns = 2
    /\ event.prev = Some(event.caps)
    /\ \E k \in RegistryKeys \cap present :
          /\ IsSome(ConfigOf(event.caps, k))
          /\ elem[k] \notin {BlankAttrs, DirtyAttrs}
          /\ elem[k].hasTooltipClass
          /\ IsSome(elem[k].dataTypes)

\* C2: after a reconciliation, every registry element that exists and has
\* settings in the descriptor is disabled unless the settings'
\* availableState is exactly "true"; "false", another string or no
\* availableState at all disable it.
C2_FailClosed ==
    CapsRan =>
        \A k \in RegistryKeys \cap present :
            LET cfg == ConfigOf(event.caps, k)
            IN  IsSome(cfg) =>
                    (elem[k].disabled <=>
                        ~(Has(cfg[1], "availableState")
                            /\ cfg[1].availableState = "true"))

\* C2 witness: one run enabled an element that was disabled ("true") and
\* left disabled an element whose availableState is neither "true" nor
\* "false", or is missing.
C2_EnabledAndFailClosed ==
    /\ CapsRan
    /\ \E k \in RegistryKeys \cap present :
          LET cfg == ConfigOf(event.caps, k)
          IN  /\ IsSome(cfg)
              /\ Has(cfg[1], "availableState")
              /\ cfg[1].availableState = "true"
              /\ event.before[k].disabled
              /\ ~elem[k].disabled
    /\ \E k \in RegistryKeys \cap present :
          LET cfg == ConfigOf(event.caps, k)
          IN  /\ IsSome(cfg)
              /\ (~Has(cfg[1], "availableState")
                    \/ cfg[1].availableState \notin {"true", "false"})
              /\ elem[k].disabled

\* The run has just reconciled the descriptor of the section 8 scenario and
\* the attach control exists.
ScenarioRan ==
    CapsRan /\ event.caps = ScenarioDescriptor /\ "sendAttachments" \in present

\* C3, as the code behaves: after the scenario's descriptor the attach
\* control is disabled, has the has-tooltip class, data-tooltip "Disabled",
\* data-limit "1" (the limit is defined) and no data-types attribute.
C3_ScenarioWithLimit ==
    ScenarioRan =>
        elem["sendAttachments"] =
            [disabled |-> TRUE, hasTooltipClass |-> TRUE,
             dataTooltip |-> Some("Disabled"), dataLimit |-> Some(<<"1">>),
             dataTypes |-> Absent]

\* C3 witness: the scenario's descriptor reconciled onto an attach control
\* that carried none of these attributes.
C3_ScenarioApplied ==
    /\ ScenarioRan
    /\ event.before["sendAttachments"] = BlankAttrs
    /\ elem["sendAttachments"].disabled

\* C3 as stated: the same, with neither a data-limit nor a data-types
\* attribute.
C3_ScenarioNoLimit ==
    ScenarioRan =>
        elem["sendAttachments"] =
            [disabled |-> TRUE, hasTooltipClass |-> TRUE,
             dataTooltip |-> Some("Disabled"), dataLimit |-> Absent,
             dataTypes |-> Absent]

\* The descriptor lacks a category of the registry, or a key of it.
LacksCategoryOrKey(caps) ==
    \E c \in Range(Categories) :
        ~Has(caps, c) \/ \E k \in Range(UiKeys(c)) : ~HasConfig(caps, c, k)

\* C4 as stated: when the fetch failed (the descriptor is then {}) or the
\* descriptor lacks a category or key of the registry, updateUiCapabilities
\* ends without an error and the elements it has no settings for keep their
\* state, in both variants, with or without the attach control.
C4_MissingPartsIgnored ==
    (CapsRan /\ (event.failed \/ LacksCategoryOrKey(event.caps))) =>
        /\ ~event.threw
        /\ \A k \in RegistryKeys :
              ConfigOf(event.caps, k) = Absent => elem[k] = event.before[k]

(***************************************************************************)
(* History load, submit, send button, keydown, empty state.                *)
(***************************************************************************)
\* C5 as stated: fetchMessages returns the empty sequence for every network
\* error and for every response that is not 2xx, whatever its body.
C5_FailureGivesEmpty ==
    (event.kind = "load" /\ event.failed) => event.payload = ArrayPayload(<<>>)

\* The step just taken ran the submit handler (a submit event, or Enter that
\* requested the submission).
SubmitHandled ==
    event.kind = "submit" \/ (event.kind = "keydown" /\ event.requested)

\* The text the handler extracted is a non-empty string.
ExtractedNonEmpty == IsSome(event.message) /\ Len(event.message[1]) > 0

\* C6: a handled submit issues exactly one POST when the extracted text is
\* non-empty and none when it is empty or missing; when a POST settles, with
\* a failure or not, no further POST is issued for it, and a failed POST
\* (network error, non-2xx) is rejected by sendMessage and renders nothing.
C6_OnePostNoRetry ==
    /\ SubmitHandled =>
          Len(inflight) = event.inflightBefore + (IF ExtractedNonEmpty THEN 1 ELSE 0)
    /\ event.kind = "settle" =>
          /\ Len(inflight) = event.inflightBefore - 1
          /\ event.slot \notin BusySlots
          /\ event.failed => (event.rejected /\ event.render = "none")

\* C6 witness: the only POST in flight failed and nothing is in flight now.
C6_FailedPostSettled ==
    /\ event.kind = "settle"
    /\ event.failed
    /\ event.rejected
    /\ inflight = <<>>

\* The text holds nothing but whitespace.
OnlyWhitespace(value) == \A i \in DOMAIN value : value[i] \in Whitespace

\* The state the trailing statements of the submit handler establish: the
\* form reset, no pending attachment, the preview list (if any) redrawn
\* empty, the send button (if it and the textarea exist) recomputed.
AfterSubmitState ==
    /\ text = defaultValue
    /\ selectedFiles = <<>>
    /\ (variant = "rich" /\ "preview" \in present) => preview.items = <<>>
    /\ ({"sendButton", "sendText"} \subseteq present) =>
          (sendDisabled <=> OnlyWhitespace(text))

\* C7: a submit handled while the form exists is followed by the form reset,
\* the pending attachments dropped, the preview redrawn and the send button
\* recomputed: at once when nothing was sent, and otherwise when the POST
\* it issued settles, which it eventually does (a request in flight is
\* eventually answered or fails).
C7_SubmitEventuallyResets ==
    /\ []((SubmitHandled /\ Len(inflight) = event.inflightBefore) => AfterSubmitState)
    /\ \A s \in Slots :
          (s \in BusySlots) ~>
              (event.kind = "settle" /\ event.slot = s /\ AfterSubmitState)

\* C7 witness: a POST sent with a pending attachment has failed, and the
\* pending set and the preview are empty again.
C7_ResetAfterFailedSend ==
    /\ event.kind = "settle"
    /\ event.rejected
    /\ AfterSubmitState
    /\ variant = "rich"
    /\ ~preview.hidden
    /\ sendDisabled

\* C8: from initialisation on (so after init, after every input event and
\* after every completed submit) the send button, when it and the textarea
\* exist, is disabled exactly when the textarea holds only whitespace or
\* nothing.
C8_SendButtonTracksText ==
    (initDone /\ {"sendButton", "sendText"} \subseteq present) =>
        (sendDisabled <=> OnlyWhitespace(text))

\* C8 witness: an input event left whitespace-only text and the button is
\* disabled.
C8_WhitespaceDisables ==
    /\ event.kind = "input"
    /\ text # <<>>
    /\ OnlyWhitespace(text)
    /\ "sendButton" \in present
    /\ sendDisabled

\* C9: Enter without Shift always prevents the default and runs the submit
\* handler exactly when the form exists and the send button is not a
\* disabled one; Enter with Shift and every other key do neither.
C9_EnterSubmits ==
    event.kind = "keydown" =>
        /\ Has(event, "message") <=> event.requested
        /\ IF event.key = "Enter" /\ ~event.shift
           THEN /\ event.prevented
                /\ event.requested <=>
                      ("form" \in present
                          /\ ~("sendButton" \in present /\ event.disabledBefore))
           ELSE ~event.prevented /\ ~event.requested

\* C9 witness: Enter pressed while the send button was disabled: the default
\* was prevented and nothing was submitted.
C9_EnterWhileDisabled ==
    /\ event.kind = "keydown"
    /\ event.key = "Enter"
    /\ ~event.shift
    /\ "sendButton" \in present
    /\ event.disabledBefore
    /\ event.prevented
    /\ ~event.requested

\* C10 as stated: after a render pass given zero messages (history load,
\* its failure fallback, or a send response), whatever was rendered before,
\* the chat content holds the empty-state element, not hidden, and no list.
C10_ZeroShowsEmptyState ==
    (/\ event.kind \in {"load", "settle"}
     /\ event.render = "zero"
     /\ {"chatContent", "emptyBlock"} \subseteq present) =>
        /\ ContentHasEmptyBlock(content)
        /\ ~emptyHidden
        /\ ContentLists(content) = <<>>

(***************************************************************************)
(* Attachments.                                                            *)
(***************************************************************************)
\* The limit the file input declared when the selection changed: its
\* data-limit attribute, 1 when the attribute is absent.
DeclaredLimit ==
    IF IsSome(event.limit) THEN ParseInt(event.limit[1]).val ELSE 1

FirstOf(files, k) ==
    SubSeq(files, 1, IF k < Len(files) THEN k ELSE Len(files))

\* C11: after a change event the pending set is the first min(n, limit) of
\* the picked files and is never longer than the declared limit, for every
\* integer limit.
C11_PendingWithinLimit ==
    event.kind = "change" =>
        /\ selectedFiles = FirstOf(event.picked, DeclaredLimit)
        /\ Len(selectedFiles) <= DeclaredLimit

\* C12: the preview shows exactly one entry, for the first pending file,
\* when the pending set is non-empty, and no entry when it is empty.
C12_PreviewShowsFirstOnly ==
    (variant = "rich" /\ "preview" \in present) =>
        preview.items = IF selectedFiles = <<>> THEN <<>>
                        ELSE <<selectedFiles[1]>>

\* Several files are pending and the preview was rendered for them.
C12_SeveralPendingOneEntry ==
    /\ variant = "rich" /\ "preview" \in present
    /\ event.kind = "change"
    /\ Len(selectedFiles) >= 2
    /\ preview.items = <<"f1">>

\* C13: the remove click empties the pending set and the preview list and
\* hides the preview; a submit handled next sends no file.
C13_RemoveClearsPending ==
    /\ event.kind = "remove" =>
          selectedFiles = <<>> /\ preview.items = <<>> /\ preview.hidden
    /\ (SubmitHandled /\ event.afterRemove) => event.files = <<>>

\* A submit with a message to send is handled right after a removal.
C13_SubmitAfterRemoval ==
    SubmitHandled /\ event.afterRemove /\ ExtractedNonEmpty /\ event.files = <<>>

\* The non-empty type list the last descriptor configures for key k.
TypesOf(k) ==
    LET cfg == ConfigOf(lastCaps[1], k)
    IN  IF IsSome(cfg) /\ Has(cfg[1], "types") /\ cfg[1].types # <<>>
        THEN Some(cfg[1].types) ELSE Absent

\* C14: for a non-empty type list the data-types attribute parses as JSON to
\* the same ordered sequence, and that is what the attach click reads to
\* build the accept list.
C14_TypesRoundTrip ==
    /\ CapsRan =>
          \A k \in RegistryKeys \cap present :
              IsSome(TypesOf(k)) =>
                  /\ IsSome(elem[k].dataTypes)
                  /\ JsonParseArray(elem[k].dataTypes[1]) =
                        [ok |-> TRUE, value |-> TypesOf(k)[1], rest |-> <<>>]
    /\ (event.kind = "attach" /\ IsSome(lastCaps)
           /\ IsSome(TypesOf("sendAttachments"))) =>
          /\ ~event.threw
          /\ event.types = TypesOf("sendAttachments")
          /\ IsSome(chooser)
          /\ chooser[1].accept = Some(JoinComma(TypesOf("sendAttachments")[1]))

\* The attach click read back a list whose entries hold a comma, a quote
\* and a backslash.
C14_OddTypesReadBack ==
    /\ event.kind = "attach"
    /\ event.types = Some(<<TypeOdd, TypeBack, TypeImage>>)

(***************************************************************************)
(* Message rendering.                                                      *)
(***************************************************************************)
\* The step just taken was a render pass over a JSON array that was not
\* followed by the fallback pass of _loadMessages.
RenderedArray ==
    /\ "chatContent" \in present
    /\ \/ event.kind = "load" /\ ~event.fellBack
       \/ event.kind = "settle" /\ ~event.rejected
    /\ event.payload.isArray

AllCards(var, items) == [i \in DOMAIN items |-> Card(var, items[i])]

\* C23: the chat content holds at most one message list, and after a pass
\* with n > 0 messages that list holds exactly the n cards of that pass, in
\* order, and nothing from earlier passes.
C23_RenderReplaces ==
    /\ Len(ContentLists(content)) <= 1
    /\ (RenderedArray /\ Len(event.payload.items) > 0) =>
          content = <<ListNode(AllCards(variant, event.payload.items))>>

\* The files of a message that are images, videos or audio, in order.
MediaFiles(files) ==
    SelectSeq(files, LAMBDA f : \E prefix \in {MimeImage, MimeVideo, MimeAudio} :
                                   StartsWith(f.mimetype, prefix))

BothSettled == capsPc \in {"done", "rejected"} /\ loadPc = "done"

\* The registry after reconciling the capabilities answer on the page as
\* constructed.
ElemFor(resp) ==
    LET fetched == FetchCapabilities(resp)
        blank == [k \in RegistryKeys |-> BlankAttrs]
    IN  IF fetched.rejected THEN blank
        ELSE Reconcile(blank, present, variant, fetched.value).elem

\* The chat after rendering the history answer on the page as constructed.
ChatFor(resp) ==
    LET blank == IF {"chatContent", "emptyBlock"} \subseteq present
                 THEN <<EmptyBlockNode>> ELSE <<>>
        r1 == RenderMessages(variant, present, blank, FALSE, FetchMessages(resp))
        r2 == RenderMessages(variant, present, r1.content, r1.emptyHidden,
                             ArrayPayload(<<>>))
    IN  IF r1.threw THEN r2 ELSE r1

\* C25: whichever of the capabilities fetch and the history fetch resolves
\* first, the final state of the registry elements, the rendered content
\* and the skeleton is the same: the one the two answers determine.
C25_OrderIndependent ==
    BothSettled =>
        /\ elem = ElemFor(answers.caps)
        /\ content = ChatFor(answers.load).content
        /\ emptyHidden = ChatFor(answers.load).emptyHidden
        /\ skeletonHidden

\* The history was rendered first and the capabilities, arriving later,
\* configured the attach control.
C25_CapabilitiesLast ==
    /\ BothSettled
    /\ event.kind = "caps"
    /\ ContentLists(content) # <<>>
    /\ "sendAttachments" \in present
    /\ IsSome(elem["sendAttachments"].dataLimit)

\* The step just taken was the continuation of a capabilities request that
\* failed: network error, non-2xx status, or a body that does not parse.
CapsFailed == event.kind = "caps" /\ (event.failed \/ ~event.fetched)

LoadFailed == event.kind = "load" /\ event.failed

SendFailed == event.kind = "settle" /\ event.rejected

\* The handlers _handleEvents bound run for the events the page can deliver.
HandlersBound ==
    /\ initDone
    /\ (TextareaUsable /\ Texts # {text}) => ENABLED TextareaInput
    /\ ("form" \in present /\ Len(inflight) < MaxInflight) => ENABLED SubmitEvent
    /\ (/\ variant = "rich" /\ "sendAttachments" \in present
        /\ ~elem["sendAttachments"].disabled) => ENABLED AttachClick
    /\ IsSome(chooser) => ENABLED FileChange

\* C26: a failed capabilities fetch leaves the handlers bound and the
\* history load completes and renders; a failed history load leaves the
\* reconciliation to complete; after a failed send the handlers still run.
C26_FailuresIsolated ==
    /\ [](CapsFailed => (HandlersBound /\ <>(loadPc = "done" /\ skeletonHidden)))
    /\ [](LoadFailed => <>(capsPc \in {"done", "rejected"}))
    /\ [](SendFailed => HandlersBound)

\* A send failed after the capabilities request had failed, and the
\* history is rendered.
C26_AllFailedOnce ==
    /\ SendFailed
    /\ capsPc = "rejected"
    /\ loadPc = "done" /\ ContentLists(content) # <<>>
    /\ IsSome(chooser)

\* C27: once a send has rendered its answer, the answer of a request issued
\* before that send (the history load, an earlier send) never replaces the
\* rendered list: no render pass runs for an overtaken request.
C27_NoStaleRender ==
    (event.kind \in {"load", "settle"} /\ event.stale) => event.render = "none"

\* The step just taken ran the submit handler and it issued a POST.
PostIssued == SubmitHandled /\ ExtractedNonEmpty

\* C28: while a send is in flight a further Enter or submit event issues no
\* second POST with the same text: right after a handled submit that issued
\* a POST, with nothing typed since, the next handled submit issues none.
C28_NoSecondPost ==
    [][(PostIssued /\ SubmitHandled') => ~ExtractedNonEmpty']_vars

\* C29: no POST carries a message whose trimmed text is empty, whatever
\* the sequence of input, keydown and submit events, the send button
\* missing from the page included.
C29_NoBlankPost ==
    /\ PostIssued => Len(Trim(event.message[1])) > 0
    /\ \A i \in DOMAIN inflight : Len(Trim(inflight[i].text)) > 0

\* The step just taken ended a run of the submit handler: the POST settled,
\* or there was nothing to send.
SubmitCompleted ==
    \/ event.kind = "settle"
    \/ SubmitHandled /\ ~ExtractedNonEmpty

\* C30: after every file selection, removal and completed submit the
\* preview container is hidden exactly when no attachment is pending.
C30_PreviewHiddenIffEmpty ==
    (/\ variant = "rich" /\ "preview" \in present
     /\ (event.kind \in {"change", "remove"} \/ SubmitCompleted)) =>
        (preview.hidden <=> selectedFiles = <<>>)

\* The step just taken picked files while a POST was in flight; every such
\* POST was issued before the pick.
PickedDuringSend ==
    event.kind = "change" /\ selectedFiles # <<>> /\ inflight # <<>>

\* C31: files picked while a send is in flight are not lost: right after
\* such a pick the pending set is emptied only by a remove click or by a
\* run of the submit handler that starts after the pick, never by the
\* completion of the send that was already in flight.
C31_PickDuringSendKept ==
    [][(PickedDuringSend /\ selectedFiles' = <<>>) =>
           (event'.kind = "remove" \/ SubmitHandled')]_vars

(***************************************************************************)
(* Failure of a send, and the skeleton of the history load.                *)
(***************************************************************************)
\* The step just taken ended a send that failed: the POST met a network
\* error or a non-2xx status, or sendMessage rejected for another reason.
SendFailedNow == event.kind = "settle" /\ (event.failed \/ event.rejected)

Loading == loadPc = "fetching"

\* C33 as amended: on a page that has the chat content and the skeleton, the
\* skeleton is shown from the start of the history load until its end;
\* every load that started ends, and from then on the skeleton is hidden,
\* whatever the load's outcome.
C33_SkeletonShownThenHidden ==
    /\ []((Loading /\ {"chatContent", "skeleton"} \subseteq present) => ~skeletonHidden)
    /\ [](loadPc = "done" => skeletonHidden)
    /\ Loading ~> (loadPc = "done" /\ skeletonHidden)

\* The history answered with a payload on which the render pass raised: the
\* skeleton, shown at the start, is hidden.
C33_HiddenAfterRaise ==
    /\ {"chatContent", "skeleton"} \subseteq present
    /\ event.kind = "load" /\ event.fellBack
    /\ loadPc = "done" /\ skeletonHidden

\* C33 as stated: the skeleton is shown whenever the history load starts.
C33_SkeletonShownOnEveryPage ==
    /\ []((Loading /\ "skeleton" \in present) => ~skeletonHidden)
    /\ [](loadPc = "done" => skeletonHidden)
    /\ Loading ~> (loadPc = "done" /\ skeletonHidden)

(***************************************************************************)
(* Tooltip positioning and tracking.                                       *)
(***************************************************************************)
\* The step just taken was a pointer-move handled while a target was
\* tracked and the label existed.
MoveHandled == tipEvent.kind = "move" /\ tipEvent.tracked

\* The label's projected right / bottom edge is beyond the viewport.
ProjectsPastRight == tipEvent.x + TipOffsetX + tipEvent.rect.w > viewport.w
ProjectsPastBottom == tipEvent.y - TipOffsetY + tipEvent.rect.h > viewport.h

\* C15, as the code behaves: on a handled pointer-move, a projected right
\* edge beyond the viewport width puts the label's left at
\* viewportWidth - labelWidth - 5, unless that is negative, when left is 5;
\* the same for the bottom edge and top.
C15_ClampThenFloor ==
    MoveHandled =>
        /\ ProjectsPastRight =>
              tooltipElement[1].left =
                  IF viewport.w - tipEvent.rect.w - 5 < 0 THEN 5
                  ELSE viewport.w - tipEvent.rect.w - 5
        /\ ProjectsPastBottom =>
              tooltipElement[1].top =
                  IF viewport.h - tipEvent.rect.h - 5 < 0 THEN 5
                  ELSE viewport.h - tipEvent.rect.h - 5

\* C15 witness: a move clamped at both edges, the label 5 short of each.
C15_ClampedBothEdges ==
    /\ MoveHandled
    /\ ProjectsPastRight
    /\ ProjectsPastBottom
    /\ tooltipElement[1].left = viewport.w - tipEvent.rect.w - 5
    /\ tooltipElement[1].top = viewport.h - tipEvent.rect.h - 5
    /\ tooltipElement[1].left > 5

\* C15 as stated: the clamped values for every label and viewport size.
C15_ClampAlways ==
    MoveHandled =>
        /\ ProjectsPastRight =>
              tooltipElement[1].left = viewport.w - tipEvent.rect.w - 5
        /\ ProjectsPastBottom =>
              tooltipElement[1].top = viewport.h - tipEvent.rect.h - 5

\* C16 as stated: after a handled pointer-move the label's box is inside the
\* viewport with left >= 5 and top >= 5.
C16_BoxInsideViewport ==
    MoveHandled =>
        /\ tooltipElement[1].left >= 5
        /\ tooltipElement[1].top >= 5
        /\ tooltipElement[1].left + tipEvent.rect.w <= viewport.w
        /\ tooltipElement[1].top + tipEvent.rect.h <= viewport.h

\* The label as _hideTooltip leaves it.
Hidden(label) ==
    IF IsSome(label) THEN Some([label[1] EXCEPT !.visible = FALSE]) ELSE label

\* C17: a pointer-leave whose related target is no node, or is a node
\* outside the tracked element, hides the label and clears the current
\* target; a leave into the tracked element or a descendant changes neither
\* (nor does a leave while nothing is tracked).
C17_LeaveHidesOutside ==
    tipEvent.kind = "out" =>
        LET r == tipEvent.related
            tb == tipEvent.targetBefore
            outside == IsSome(tb) /\ r # tb[1] /\ ParentOf(r) # tb[1]
        IN  IF r = NoNode \/ outside
            THEN currentTarget = Absent /\ tooltipElement = Hidden(tipEvent.labelBefore)
            ELSE currentTarget = tb /\ tooltipElement = tipEvent.labelBefore

\* C17 witness: the pointer left the tracked element for a sibling and the
\* visible label was hidden.
C17_LeftForSibling ==
    /\ tipEvent.kind = "out"
    /\ tipEvent.targetBefore = Some("outer")
    /\ tipEvent.related = "sibling"
    /\ tipEvent.labelBefore[1].visible
    /\ ~tooltipElement[1].visible
    /\ currentTarget = Absent

\* The entered target itself carried the class and a non-empty attribute.
EnteredQualifies ==
    /\ tipEvent.target # "document"
    /\ tipEvent.marks.cls
    /\ IsSome(tipEvent.marks.attr)
    /\ tipEvent.marks.attr[1] # ""

\* C18: a pointer-enter tracks its target, with the label showing the
\* attribute's content, exactly when the target itself has the marker class
\* and a non-empty data attribute; any other enter changes neither the
\* current target nor the label.
C18_EnterTracksQualifying ==
    tipEvent.kind = "over" =>
        IF EnteredQualifies
        THEN /\ currentTarget = Some(tipEvent.target)
             /\ IsSome(tooltipElement)
             /\ tooltipElement[1].text = tipEvent.marks.attr[1]
             /\ tooltipElement[1].visible
        ELSE /\ currentTarget = tipEvent.targetBefore
             /\ tooltipElement = tipEvent.labelBefore

\* C18 witness: the pointer entered the attach control, which carries the
\* class and the empty data-tooltip the reconciler wrote, while another
\* element was tracked: nothing changed.
C18_EmptyTooltipIgnored ==
    /\ tipEvent.kind = "over"
    /\ tipEvent.target = "sendAttachments"
    /\ tipEvent.marks = [cls |-> TRUE, attr |-> Some("")]
    /\ currentTarget = Some("outer")
    /\ tooltipElement[1].text = "Out"
    /\ tooltipElement[1].visible

\* C19 as stated: in every state a current target is tracked exactly when
\* the label exists and is visible.
C19_TrackedIffVisible ==
    IsSome(currentTarget) <=> (IsSome(tooltipElement) /\ tooltipElement[1].visible)

\* C20: a qualifying enter while another element is tracked makes the
\* entered element the current target and its content the label's text,
\* the label visible before and after the step.
C20_LastEnteredWins ==
    (/\ tipEvent.kind = "over"
     /\ EnteredQualifies
     /\ IsSome(tipEvent.targetBefore)
     /\ tipEvent.targetBefore # Some(tipEvent.target)) =>
        /\ currentTarget = Some(tipEvent.target)
        /\ tooltipElement[1].text = tipEvent.marks.attr[1]
        /\ tipEvent.labelBefore[1].visible
        /\ tooltipElement[1].visible

\* C20 witness: from the tracked outer marker the pointer entered the
\* marker nested in it.
C20_InnerReplacesOuter ==
    /\ tipEvent.kind = "over"
    /\ tipEvent.targetBefore = Some("outer")
    /\ tipEvent.target = "inner"
    /\ currentTarget = Some("inner")
    /\ tooltipElement[1].text = "In"
    /\ tipEvent.labelBefore[1].text = "Out"
\* C21: destroy removes the three document listeners and detaches the label
\* if there is one, whether or not a label was ever created; afterwards no
\* pointer event changes the manager's state or shows a label.
C21_TeardownSilences ==
    /\ [](tipEvent.kind = "destroy" =>
             /\ listeners = {}
             /\ IsSome(tooltipElement) => ~tooltipElement[1].attached)
    /\ [][listeners = {} =>
             UNCHANGED <<listeners, created, currentTarget, tooltipElement>>]_vars

\* destroy ran while a label was attached and visible.
C21_DestroyedWhileShown ==
    /\ tipEvent.kind = "destroy"
    /\ IsSome(tipEvent.labelBefore)
    /\ tipEvent.labelBefore[1].visible /\ tipEvent.labelBefore[1].attached
    /\ tooltipElement = Absent
    /\ listeners = {}

\* C22: over any sequence of hover sessions at most one label element is
\* created: on the first qualifying enter; every later one reuses it.
C22_OneLabelCreated ==
    /\ created <= 1
    /\ created = 0 => tooltipElement = Absent
    /\ (tipEvent.kind = "over" /\ EnteredQualifies) => created = 1

\* A later hover session starts on the label an earlier one created.
C22_LabelReused ==
    /\ tipEvent.kind = "over" /\ EnteredQualifies
    /\ tipEvent.targetBefore = Absent
    /\ IsSome(tipEvent.labelBefore) /\ ~tipEvent.labelBefore[1].visible
    /\ created = 1

====
